---------------------------- MODULE Spec2Model ----------------------------
(***************************************************************************)
(* State-machine model of the QuantPlay client library                     *)
(* (quantplay_mcp/client.py, models.py, config.py, server.py).             *)
(*                                                                         *)
(* Strings that the code only compares or passes on are TLA+ strings.      *)
(* Strings that the code takes apart or joins (URLs, endpoint templates)   *)
(* are sequences of atoms, an atom being "/" , "{}" or a run of other      *)
(* characters, so that startswith("/") and str.format are computed.        *)
(* Python dicts are functions whose domain is the set of keys.             *)
(***************************************************************************)
EXTENDS Integers, Sequences, FiniteSets, TLC

VARIABLES
    DEFAULT_HEADERS,  \* config.DEFAULT_HEADERS, the module-level dict
    clients,          \* the QuantPlayClient instances constructed so far
    pc,               \* the caller: "idle", "awaiting" (suspended at the
                      \* await of async_get_accounts) or "done"
    call,             \* the call in progress or just finished: operation,
                      \* arguments, what the transport did, the outcome
    session,          \* the aiohttp session of the async call: who created
                      \* it and how often close() was called on it
    sent              \* the HTTP requests the call has issued

vars == <<DEFAULT_HEADERS, clients, pc, call, session, sent>>

(***************************************************************************)
(* Bounds of the model.                                                    *)
(***************************************************************************)
\* Number of client objects alive at once.
MaxClients == 2

(***************************************************************************)
(* config.py                                                               *)
(***************************************************************************)
API_BASE_URL == <<"https:", "/", "/", "dms.quantplay.tech">>
API_VERSION == <<"v2">>
API_ENDPOINT == API_BASE_URL \o <<"/">> \o API_VERSION
DEFAULT_TIMEOUT == 30
DEFAULT_HEADERS_INIT ==
    [h \in {"Content-Type", "Accept"} |-> "application/json"]
ACCOUNTS_ENDPOINT == <<"/", "accounts">>
POSITIONS_ENDPOINT == <<"/", "accounts", "/", "{}", "/", "positions">>
HOLDINGS_ENDPOINT == <<"/", "accounts", "/", "{}", "/", "holdings">>

\* str.format with one positional argument: every "{}" atom is replaced.
RECURSIVE Format(_, _)
Format(template, arg) ==
    IF template = <<>> THEN <<>>
    ELSE (IF Head(template) = "{}" THEN arg ELSE <<Head(template)>>)
         \o Format(Tail(template), arg)

(***************************************************************************)
(* Names bound in the namespace of client.py when its functions run: the   *)
(* imports of lines 7-28 and the definitions of lines 31-399.              *)
(***************************************************************************)
ModuleGlobals ==
    {"json", "logging", "List", "Optional", "TypeVar", "Type", "requests",
     "aiohttp", "ClientSession", "ClientResponse", "ClientTimeout",
     "API_ENDPOINT", "DEFAULT_HEADERS", "DEFAULT_TIMEOUT",
     "ACCOUNTS_ENDPOINT", "POSITIONS_ENDPOINT", "HOLDINGS_ENDPOINT",
     "ERROR_INVALID_API_KEY", "ERROR_API_REQUEST_FAILED",
     "ERROR_NETWORK_ERROR", "ERROR_TIMEOUT", "ERROR_PARSE_ERROR",
     "Account", "APIResponse", "logger", "T", "ResponseType",
     "QuantPlayAPIError", "AuthenticationError", "APIRequestError",
     "NetworkError", "TimeoutError", "ParseError", "QuantPlayClient",
     "Client"}

\* Attributes of a QuantPlayClient instance (its methods and fields).
ClientAttributes ==
    {"api_key", "base_url", "timeout", "headers", "_build_url",
     "_handle_response", "_handle_async_response", "get_accounts",
     "get_holdings", "get_positions", "async_get_accounts"}

(***************************************************************************)
(* Exception classes.                                                      *)
(***************************************************************************)
QuantPlayAPIError ==
    {"AuthenticationError", "APIRequestError", "NetworkError",
     "TimeoutError", "ParseError"}

\* requests.exceptions: what requests.get can raise, and the subclass sets.
RequestsTimeout == {"requests.Timeout", "requests.ConnectTimeout"}
RequestsConnectionError ==
    {"requests.ConnectionError", "requests.ConnectTimeout"}
RequestException ==
    RequestsTimeout \cup RequestsConnectionError
        \cup {"requests.TooManyRedirects"}

\* aiohttp / asyncio: what session.get and response.json can raise.
AsyncioTimeoutError == {"asyncio.TimeoutError"}
ClientConnectorError == {"aiohttp.ClientConnectorError"}
ClientError ==
    ClientConnectorError
        \cup {"aiohttp.ServerDisconnectedError", "aiohttp.ContentTypeError"}

(***************************************************************************)
(* Outcomes of an operation: a returned value or a raised exception.       *)
(***************************************************************************)
Raise(exc, status_code, message, timeout) ==
    [kind |-> "raise", exc |-> exc, status_code |-> status_code,
     message |-> message, timeout |-> timeout, vtype |-> "none",
     value |-> <<>>]

Return(vtype, value) ==
    [kind |-> "return", exc |-> "", status_code |-> 0, message |-> "",
     timeout |-> 0, vtype |-> vtype, value |-> value]

NoResult == Return("none", <<>>)


(***************************************************************************)
(* HTTP responses and JSON bodies.  A body is its text; JsonLoads is       *)
(* json.loads on exactly these texts (acct1 and acct2 inside a text stand  *)
(* for the JSON objects of those two account mappings).                    *)
(***************************************************************************)
Statuses == {200, 201, 304, 401, 500}
ContentTypes == {"application/json", "text/html"}

acct1 ==
    [broker |-> "zerodha", username |-> "u1", nickname |-> "n1",
     expiry |-> "2099-01-01"]
acct2 ==
    [broker |-> "upstox", username |-> "u2", nickname |-> "n2",
     expiry |-> "2099-12-31", margin |-> "5"]

BodyTexts ==
    {"", "<html>Bad Gateway</html>", "null", "[1]", "{}",
     "{\"message\":\"bad key\"}",
     "{\"data\":[]}",
     "{\"data\":[acct1]}",
     "{\"data\":[acct1,acct2]}",
     "{\"error\":true,\"message\":\"rejected\",\"data\":[]}",
     "{\"error\":true}",
     "{\"status\":\"error\",\"message\":\"rejected\",\"data\":[]}",
     "{\"status\":\"ok\",\"data\":[acct1]}",
     "{\"status\":\"ok\",\"data\":[acct2],\"message\":\"fine\"}"}

JsonInvalid == [ok |-> FALSE, isDict |-> FALSE, obj |-> [k \in {} |-> ""]]
JsonNonDict == [ok |-> TRUE, isDict |-> FALSE, obj |-> [k \in {} |-> ""]]
JsonDict(obj) == [ok |-> TRUE, isDict |-> TRUE, obj |-> obj]

JsonLoads(text) ==
    CASE text = "null" -> JsonNonDict
      [] text = "[1]" -> JsonNonDict
      [] text = "{}" -> JsonDict([k \in {} |-> ""])
      [] text = "{\"message\":\"bad key\"}" -> JsonDict([message |-> "bad key"])
      [] text = "{\"data\":[]}" -> JsonDict([data |-> <<>>])
      [] text = "{\"data\":[acct1]}" -> JsonDict([data |-> <<acct1>>])
      [] text = "{\"data\":[acct1,acct2]}" ->
            JsonDict([data |-> <<acct1, acct2>>])
      [] text = "{\"error\":true,\"message\":\"rejected\",\"data\":[]}" ->
            JsonDict([error |-> TRUE, message |-> "rejected", data |-> <<>>])
      [] text = "{\"error\":true}" -> JsonDict([error |-> TRUE])
      [] text = "{\"status\":\"error\",\"message\":\"rejected\",\"data\":[]}" ->
            JsonDict([status |-> "error", message |-> "rejected",
                      data |-> <<>>])
      [] text = "{\"status\":\"ok\",\"data\":[acct1]}" ->
            JsonDict([status |-> "ok", data |-> <<acct1>>])
      [] text = "{\"status\":\"ok\",\"data\":[acct2],\"message\":\"fine\"}" ->
            JsonDict([status |-> "ok", data |-> <<acct2>>,
                      message |-> "fine"])
      [] OTHER -> JsonInvalid

\* dict.get(key, default)
Get(d, key, default) == IF key \in DOMAIN d THEN d[key] ELSE default

Responses ==
    [status_code : Statuses, text : BodyTexts, content_type : ContentTypes]
NoResponse == [status_code |-> 0, text |-> "", content_type |-> ""]

\* requests.Response.raise_for_status raises HTTPError for 4xx and 5xx.
raise_for_status(response) ==
    400 <= response.status_code /\ response.status_code < 600

\* aiohttp.ClientResponse.ok
ok(response) == 400 > response.status_code

\* The message both handlers extract for a failure status.
error_message(loaded, text) ==
    IF loaded.ok
    THEN IF loaded.isDict
         THEN Get(loaded.obj, "message", "Unknown error")
         ELSE "Unknown error"
    ELSE IF text # "" THEN text ELSE "Unknown error"

\* QuantPlayClient._handle_response
_handle_response(response) ==
    LET loaded == JsonLoads(response.text) IN
    IF raise_for_status(response)
    THEN Raise("APIRequestError", response.status_code,
               error_message(loaded, response.text), 0)
    ELSE IF ~loaded.ok
    THEN Raise("ParseError", 0, "ERROR_PARSE_ERROR", 0)
    ELSE IF loaded.isDict /\ "error" \in DOMAIN loaded.obj
            /\ loaded.obj["error"] = TRUE
    THEN Raise("APIRequestError", response.status_code,
               Get(loaded.obj, "message", "Unknown error"), 0)
    ELSE IF ~loaded.isDict
    THEN Raise("TypeError", 0, "", 0)
    ELSE IF "data" \notin DOMAIN loaded.obj
    THEN Raise("KeyError", 0, "data", 0)
    ELSE Return("list", loaded.obj["data"])

\* aiohttp.ClientResponse.json: the content type is checked first, an empty
\* body decodes to None, anything else goes through json.loads.
AioJson(response) ==
    IF response.content_type # "application/json"
    THEN [raised |-> "aiohttp.ContentTypeError", loaded |-> JsonInvalid]
    ELSE IF response.text = ""
    THEN [raised |-> "", loaded |-> JsonNonDict]
    ELSE IF ~JsonLoads(response.text).ok
    THEN [raised |-> "json.JSONDecodeError", loaded |-> JsonInvalid]
    ELSE [raised |-> "", loaded |-> JsonLoads(response.text)]

\* APIResponse.from_dict: cls(**data) with fields status, data and the
\* optional message.
APIResponse_from_dict(loaded) ==
    IF ~loaded.isDict
    THEN Raise("TypeError", 0, "", 0)
    ELSE IF ~({"status", "data"} \subseteq DOMAIN loaded.obj)
            \/ ~(DOMAIN loaded.obj \subseteq {"status", "data", "message"})
    THEN Raise("TypeError", 0, "", 0)
    ELSE Return("APIResponse",
                [status |-> loaded.obj["status"], data |-> loaded.obj["data"],
                 hasMessage |-> "message" \in DOMAIN loaded.obj,
                 message |-> Get(loaded.obj, "message", "")])

\* QuantPlayClient._handle_async_response with response_class = APIResponse
_handle_async_response(response) ==
    LET j == AioJson(response) IN
    IF ~ok(response)
    THEN Raise("APIRequestError", response.status_code,
               IF j.raised = "" THEN error_message(j.loaded, response.text)
               ELSE error_message(JsonInvalid, response.text), 0)
    ELSE IF j.raised = "json.JSONDecodeError"
    THEN Raise("ParseError", 0, "ERROR_PARSE_ERROR", 0)
    ELSE IF j.raised # ""
    THEN Raise(j.raised, 0, "", 0)
    ELSE IF j.loaded.isDict /\ "status" \in DOMAIN j.loaded.obj
            /\ j.loaded.obj["status"] = "error"
    THEN Raise("APIRequestError", response.status_code,
               Get(j.loaded.obj, "message", "Unknown error"), 0)
    ELSE APIResponse_from_dict(j.loaded)


(***************************************************************************)
(* models.py                                                               *)
(***************************************************************************)
Account_fields == {"broker", "username", "nickname", "expiry"}

\* The dataclass constructor Account(**kwargs): all four fields are required
\* and no other keyword is accepted.
Account(kwargs) ==
    IF DOMAIN kwargs = Account_fields
    THEN Return("Account",
                [cls |-> "Account", broker |-> kwargs["broker"],
                 username |-> kwargs["username"],
                 nickname |-> kwargs["nickname"],
                 expiry |-> kwargs["expiry"]])
    ELSE Raise("TypeError", 0, "", 0)

\* Account.from_dict without the filter on field names (as APIResponse.from_dict
\* is written): every key of the mapping is passed to the constructor.
Account_from_dict_unfiltered(data) ==
    [result |-> Account(data), data |-> data]

\* Account.from_dict: the result, and the source mapping as the call leaves it.
Account_from_dict(data) ==
    LET account_data == data
        filtered_data ==
            [k \in DOMAIN account_data \cap Account_fields |-> account_data[k]]
    IN [result |-> Account(filtered_data), data |-> data]

\* BaseModel.to_dict: dataclasses.asdict of an Account instance.
to_dict(self) == [f \in Account_fields |-> self[f]]

(***************************************************************************)
(* client.py: construction and URL building                                *)
(***************************************************************************)
NoClient ==
    [api_key |-> "", base_url |-> <<>>, timeout |-> 0,
     headers |-> [h \in {} |-> ""]]

\* Python truth value of the api_key argument (None or a string).
Truthy(api_key) == ~api_key.isNone /\ api_key.s # ""

\* dict with d[key] = value set.
SetItem(d, key, value) ==
    [h \in DOMAIN d \cup {key} |-> IF h = key THEN value ELSE d[h]]

\* QuantPlayClient.__init__ with self.headers = DEFAULT_HEADERS, no .copy():
\* the authentication header is written into the shared dict.
QuantPlayClient__init__shared(api_key, base_url, timeout, defaults) ==
    IF ~Truthy(api_key)
    THEN [result |-> Raise("AuthenticationError", 0,
                           "ERROR_INVALID_API_KEY", 0),
          self |-> NoClient, DEFAULT_HEADERS |-> defaults, sent |-> <<>>]
    ELSE [result |-> NoResult,
          self |-> [api_key |-> api_key.s, base_url |-> base_url,
                    timeout |-> timeout,
                    headers |-> SetItem(defaults, "x-api-key", api_key.s)],
          DEFAULT_HEADERS |-> SetItem(defaults, "x-api-key", api_key.s),
          sent |-> <<>>]

\* QuantPlayClient.__init__: the outcome, the instance, the module-level
\* DEFAULT_HEADERS dict as the call leaves it, and the requests issued.
QuantPlayClient__init__(api_key, base_url, timeout, defaults) ==
    IF ~Truthy(api_key)
    THEN [result |-> Raise("AuthenticationError", 0,
                           "ERROR_INVALID_API_KEY", 0),
          self |-> NoClient, DEFAULT_HEADERS |-> defaults, sent |-> <<>>]
    ELSE [result |-> NoResult,
          self |-> [api_key |-> api_key.s, base_url |-> base_url,
                    timeout |-> timeout,
                    headers |-> SetItem(defaults, "x-api-key", api_key.s)],
          DEFAULT_HEADERS |-> defaults, sent |-> <<>>]

\* _build_url without the startswith test: the endpoint is appended as given.
_build_url_as_given(self, endpoint) == self.base_url \o endpoint

\* QuantPlayClient._build_url
_build_url(self, endpoint) ==
    LET e == IF endpoint # <<>> /\ Head(endpoint) = "/"
             THEN endpoint ELSE <<"/">> \o endpoint
    IN self.base_url \o e


(***************************************************************************)
(* client.py: the read operations.  `t` is what the transport call does:   *)
(* it raises t.raised, or (t.raised = "") completes with t.response.       *)
(***************************************************************************)
NoTransport == [raised |-> "", response |-> NoResponse]

SyncTransports ==
    {[raised |-> e, response |-> NoResponse] : e \in RequestException}
        \cup {[raised |-> "", response |-> r] : r \in Responses}

\* "RuntimeError" is what session.get raises on a session that is closed.
AsyncTransports ==
    {[raised |-> e, response |-> NoResponse] :
        e \in AsyncioTimeoutError \cup ClientError \cup {"RuntimeError"}}
        \cup {[raised |-> "", response |-> r] : r \in Responses}

GetRequest(self, url, timeout) ==
    [method |-> "GET", url |-> url, headers |-> self.headers,
     timeout |-> timeout]

\* The try/except of get_accounts, get_holdings and get_positions (the three
\* bodies are the same text): requests.get, _handle_response, and the except
\* clauses in their order.
sync_get(self, t) ==
    LET body == IF t.raised # "" THEN Raise(t.raised, 0, "", 0)
                ELSE _handle_response(t.response)
    IN IF body.kind = "return" THEN body
       ELSE IF body.exc \in RequestsTimeout
       THEN Raise("TimeoutError", 0, "ERROR_TIMEOUT", self.timeout)
       ELSE IF body.exc \in RequestsConnectionError
       THEN Raise("NetworkError", 0, "ERROR_NETWORK_ERROR", 0)
       ELSE IF body.exc \in RequestException \cup QuantPlayAPIError
       THEN IF body.exc \notin QuantPlayAPIError
            THEN Raise("NetworkError", 0, "ERROR_NETWORK_ERROR", 0)
            ELSE body
       ELSE body

get_accounts(self, t) ==
    [sent |-> <<GetRequest(self, _build_url(self, ACCOUNTS_ENDPOINT),
                           self.timeout)>>,
     result |-> sync_get(self, t)]

get_holdings(self, nickname, t) ==
    [sent |-> <<GetRequest(self,
                           _build_url(self, Format(HOLDINGS_ENDPOINT, nickname)),
                           self.timeout)>>,
     result |-> sync_get(self, t)]

get_positions(self, nickname, t) ==
    [sent |-> <<GetRequest(self,
                           _build_url(self, Format(POSITIONS_ENDPOINT, nickname)),
                           self.timeout)>>,
     result |-> sync_get(self, t)]

\* async_get_accounts, lines 373-390: the try body and the except clauses.
\* A name that is not bound in the module raises NameError where it is
\* evaluated: AccountsResponse as the call's argument, asyncio when the first
\* except clause is matched against a raised exception.
async_get_accounts_try(self, t) ==
    LET body ==
            IF t.raised # "" THEN Raise(t.raised, 0, "", 0)
            ELSE IF "AccountsResponse" \notin ModuleGlobals
            THEN Raise("NameError", 0, "AccountsResponse", 0)
            ELSE LET accounts_response == _handle_async_response(t.response)
                 IN IF accounts_response.kind = "return"
                    THEN Return("list", accounts_response.value.data)
                    ELSE accounts_response
    IN IF body.kind = "return" THEN body
       ELSE IF "asyncio" \notin ModuleGlobals
       THEN Raise("NameError", 0, "asyncio", 0)
       ELSE IF body.exc \in AsyncioTimeoutError
       THEN Raise("TimeoutError", 0, "ERROR_TIMEOUT", self.timeout)
       ELSE IF body.exc \in ClientConnectorError
       THEN Raise("NetworkError", 0, "ERROR_NETWORK_ERROR", 0)
       ELSE IF body.exc \in ClientError \cup QuantPlayAPIError
       THEN IF body.exc \notin QuantPlayAPIError
            THEN Raise("NetworkError", 0, "ERROR_NETWORK_ERROR", 0)
            ELSE body
       ELSE body

\* The finally clause without its should_close_session test.
async_get_accounts_finally_always(s, should_close_session) ==
    IF s.owner # "none"
    THEN [s EXCEPT !.close_calls = @ + 1]
    ELSE s

\* async_get_accounts, lines 392-395: the finally clause.
async_get_accounts_finally(s, should_close_session) ==
    IF should_close_session /\ s.owner # "none"
    THEN [s EXCEPT !.close_calls = @ + 1]
    ELSE s

(***************************************************************************)
(* server.py: the place_order tool.  It looks up place_order on the        *)
(* module's client; the tool itself has no return statement.               *)
(***************************************************************************)
server_place_order(self, order) ==
    IF "place_order" \notin ClientAttributes
    THEN [sent |-> <<>>, result |-> Raise("AttributeError", 0, "place_order", 0)]
    ELSE [sent |-> <<>>, result |-> Return("none", <<>>)]

(***************************************************************************)
(* Inputs                                                                  *)
(***************************************************************************)
ApiKeyArgs ==
    {[isNone |-> TRUE, s |-> ""], [isNone |-> FALSE, s |-> ""],
     [isNone |-> FALSE, s |-> "k1"], [isNone |-> FALSE, s |-> "k2"]}

Configs ==
    {[base_url |-> API_ENDPOINT, timeout |-> DEFAULT_TIMEOUT],
     [base_url |-> <<"http:", "/", "/", "localhost">>, timeout |-> 5]}

Nicknames == {<<"n1">>, <<>>}

Orders ==
    [nickname : {"n1"}, tradingsymbol : {"SBIN"}, quantity : {1, 10},
     transaction_type : {"BUY", "SELL"}, product : {"CNC", "MIS"},
     price : {0, 100}, order_type : {"MARKET", "LIMIT"}, exchange : {"NSE"},
     tag : {"MCP"}]
NoOrder ==
    [nickname |-> "", tradingsymbol |-> "", quantity |-> 0,
     transaction_type |-> "", product |-> "", price |-> 0, order_type |-> "",
     exchange |-> "", tag |-> ""]

ExtraKeys == {"margin", "id"}
FieldValues == {"a", "b"}
Mappings ==
    UNION {[d -> FieldValues] : d \in SUBSET (Account_fields \cup ExtraKeys)}
EmptyMapping == [k \in {} |-> ""]

\* Endpoint paths handed to _build_url directly: with, without and with a
\* repeated leading separator, and the empty path.
Endpoints ==
    {ACCOUNTS_ENDPOINT, <<"accounts">>, <<>>, <<"/", "/", "accounts">>,
     <<"accounts", "/", "n1", "/", "positions">>}

NoSession == [owner |-> "none", close_calls |-> 0]

NoCall ==
    [op |-> "", self |-> NoClient, api_key |-> [isNone |-> TRUE, s |-> ""],
     nickname |-> <<>>, endpoint |-> <<>>, order |-> NoOrder, data |-> EmptyMapping,
     data_after |-> EmptyMapping, transport |-> NoTransport,
     should_close_session |-> FALSE, result |-> NoResult,
     async_result |-> NoResult]

(***************************************************************************)
(* The state machine: one caller that constructs clients and calls them.   *)
(***************************************************************************)
Init ==
    /\ DEFAULT_HEADERS = DEFAULT_HEADERS_INIT
    /\ clients = {}
    /\ pc = "idle"
    /\ call = NoCall
    /\ session = NoSession
    /\ sent = <<>>

Construct ==
    /\ pc = "idle"
    /\ \E api_key \in ApiKeyArgs, cfg \in Configs :
        LET r == QuantPlayClient__init__(api_key, cfg.base_url, cfg.timeout,
                                         DEFAULT_HEADERS)
        IN /\ r.result.kind = "return" =>
                Cardinality(clients \cup {r.self}) <= MaxClients
           /\ clients' = IF r.result.kind = "return"
                         THEN clients \cup {r.self} ELSE clients
           /\ DEFAULT_HEADERS' = r.DEFAULT_HEADERS
           /\ call' = [NoCall EXCEPT !.op = "__init__", !.api_key = api_key,
                                     !.self = r.self, !.result = r.result]
           /\ sent' = r.sent
    /\ pc' = "done"
    /\ UNCHANGED session

GetAccounts ==
    /\ pc = "idle"
    /\ \E self \in clients, t \in SyncTransports :
        LET r == get_accounts(self, t)
        IN /\ call' = [NoCall EXCEPT !.op = "get_accounts", !.self = self,
                                     !.transport = t, !.result = r.result]
           /\ sent' = r.sent
    /\ pc' = "done"
    /\ UNCHANGED <<DEFAULT_HEADERS, clients, session>>

GetHoldings ==
    /\ pc = "idle"
    /\ \E self \in clients, nickname \in Nicknames, t \in SyncTransports :
        LET r == get_holdings(self, nickname, t)
        IN /\ call' = [NoCall EXCEPT !.op = "get_holdings", !.self = self,
                                     !.nickname = nickname, !.transport = t,
                                     !.result = r.result]
           /\ sent' = r.sent
    /\ pc' = "done"
    /\ UNCHANGED <<DEFAULT_HEADERS, clients, session>>

GetPositions ==
    /\ pc = "idle"
    /\ \E self \in clients, nickname \in Nicknames, t \in SyncTransports :
        LET r == get_positions(self, nickname, t)
        IN /\ call' = [NoCall EXCEPT !.op = "get_positions", !.self = self,
                                     !.nickname = nickname, !.transport = t,
                                     !.result = r.result]
           /\ sent' = r.sent
    /\ pc' = "done"
    /\ UNCHANGED <<DEFAULT_HEADERS, clients, session>>

\* async_get_accounts up to its await: lines 365-374.
AsyncGetAccountsStart ==
    /\ pc = "idle"
    /\ \E self \in clients, supplied \in BOOLEAN :
        /\ call' = [NoCall EXCEPT !.op = "async_get_accounts", !.self = self,
                                  !.should_close_session = ~supplied]
        /\ session' = [owner |-> IF supplied THEN "caller" ELSE "client",
                       close_calls |-> 0]
        \* session.get takes no timeout of its own (0): the timeout is the
        \* session's.
        /\ sent' = <<GetRequest(self, _build_url(self, ACCOUNTS_ENDPOINT), 0)>>
    /\ pc' = "awaiting"
    /\ UNCHANGED <<DEFAULT_HEADERS, clients>>

\* async_get_accounts from the await on: lines 374-395.
AsyncGetAccountsResume ==
    /\ pc = "awaiting"
    /\ \E t \in AsyncTransports :
        call' = [call EXCEPT !.transport = t,
                             !.result = async_get_accounts_try(call.self, t)]
    /\ session' = async_get_accounts_finally(session, call.should_close_session)
    /\ pc' = "done"
    /\ UNCHANGED <<DEFAULT_HEADERS, clients, sent>>

PlaceOrderTool ==
    /\ pc = "idle"
    /\ \E self \in clients, order \in Orders :
        LET r == server_place_order(self, order)
        IN /\ call' = [NoCall EXCEPT !.op = "place_order", !.self = self,
                                     !.order = order, !.result = r.result]
           /\ sent' = r.sent
    /\ pc' = "done"
    /\ UNCHANGED <<DEFAULT_HEADERS, clients, session>>

\* Account.from_dict followed, when it returns, by to_dict.
AccountRoundTrip ==
    /\ pc = "idle"
    /\ \E data \in Mappings :
        LET r == Account_from_dict(data)
        IN call' = [NoCall EXCEPT
                        !.op = "Account.from_dict.to_dict", !.data = data,
                        !.data_after = r.data,
                        !.result = IF r.result.kind = "return"
                                   THEN Return("dict", to_dict(r.result.value))
                                   ELSE r.result]
    /\ sent' = <<>>
    /\ pc' = "done"
    /\ UNCHANGED <<DEFAULT_HEADERS, clients, session>>

\* Both response handlers applied to the same HTTP outcome.
HandleResponse ==
    /\ pc = "idle"
    /\ \E r \in Responses :
        call' = [NoCall EXCEPT
                    !.op = "_handle_response",
                    !.transport = [raised |-> "", response |-> r],
                    !.result = _handle_response(r),
                    !.async_result = _handle_async_response(r)]
    /\ sent' = <<>>
    /\ pc' = "done"
    /\ UNCHANGED <<DEFAULT_HEADERS, clients, session>>

\* _build_url applied to an endpoint path.
BuildUrl ==
    /\ pc = "idle"
    /\ \E self \in clients, endpoint \in Endpoints :
        call' = [NoCall EXCEPT !.op = "_build_url", !.self = self,
                               !.endpoint = endpoint,
                               !.result = Return("url",
                                                 _build_url(self, endpoint))]
    /\ sent' = <<>>
    /\ pc' = "done"
    /\ UNCHANGED <<DEFAULT_HEADERS, clients, session>>

\* The caller takes the outcome of the finished call.
Receive ==
    /\ pc = "done"
    /\ pc' = "idle"
    /\ call' = NoCall
    /\ session' = NoSession
    /\ sent' = <<>>
    /\ UNCHANGED <<DEFAULT_HEADERS, clients>>

Next ==
    \/ Receive
    \/ Construct
    \/ GetAccounts
    \/ GetHoldings
    \/ GetPositions
    \/ AsyncGetAccountsStart
    \/ AsyncGetAccountsResume
    \/ PlaceOrderTool
    \/ AccountRoundTrip
    \/ HandleResponse
    \/ BuildUrl

Spec == Init /\ [][Next]_vars


(***************************************************************************)
(* Properties                                                              *)
(***************************************************************************)
ReadOps == {"get_accounts", "get_holdings", "get_positions",
            "async_get_accounts"}

\* A read operation has finished on a completed HTTP outcome.
ReadDoneOnResponse ==
    pc = "done" /\ call.op \in ReadOps /\ call.transport.raised = ""

Is2xx(status) == 200 <= status /\ status < 300

\* The message the specification gives an APIRequestError for a body.
SpecMessage(text) ==
    IF JsonLoads(text).ok /\ JsonLoads(text).isDict
    THEN Get(JsonLoads(text).obj, "message", "Unknown error")
    ELSE IF text # "" THEN text ELSE "Unknown error"

\* C1: on every completed HTTP outcome with a non-2xx status every read
\* operation, sync or async, raises APIRequestError with that status code and
\* with the body's message field (JSON object), else the raw text, else
\* "Unknown error"; the error reaches the caller as it was raised.
C1_NonSuccessStatusRaisesAPIRequestError ==
    (ReadDoneOnResponse /\ ~Is2xx(call.transport.response.status_code)) =>
        /\ call.result.kind = "raise"
        /\ call.result.exc = "APIRequestError"
        /\ call.result.status_code = call.transport.response.status_code
        /\ call.result.message = SpecMessage(call.transport.response.text)

\* C2: when async_get_accounts has returned or raised, a session the client
\* created has been closed exactly once and a session the caller supplied has
\* not been closed by the client; nothing is closed while the call is
\* suspended at its await.
C2_SessionClosedExactlyOnce ==
    /\ pc = "awaiting" => session.close_calls = 0
    /\ (pc = "done" /\ call.op = "async_get_accounts") =>
        /\ session.owner \in {"client", "caller"}
        /\ session.owner = "client" => session.close_calls = 1
        /\ session.owner = "caller" => session.close_calls = 0

\* C2 witness: the call has raised on a session the client created, which is
\* closed.
C2_Witness ==
    /\ pc = "done" /\ call.op = "async_get_accounts"
    /\ call.result.kind = "raise"
    /\ session.owner = "client" /\ session.close_calls = 1

\* The exceptions of the transport layer.
TransportErrors == RequestException \cup AsyncioTimeoutError \cup ClientError
TimeoutSignals == RequestsTimeout \cup AsyncioTimeoutError

\* C3: when the transport fails, every read operation raises TimeoutError
\* carrying the client's timeout (timeout signal) or NetworkError (any other
\* transport error), never the raw transport exception.
C3_TransportFailureIsClassified ==
    (pc = "done" /\ call.op \in ReadOps
        /\ call.transport.raised \in TransportErrors) =>
        /\ call.result.kind = "raise"
        /\ IF call.transport.raised \in TimeoutSignals
           THEN /\ call.result.exc = "TimeoutError"
                /\ call.result.timeout = call.self.timeout
           ELSE call.result.exc = "NetworkError"

\* C4: on every completed HTTP outcome an operation ends in a returned
\* payload or in one of the five classified errors.
C4_OnlyClassifiedErrors ==
    ReadDoneOnResponse =>
        \/ call.result.kind = "return"
        \/ call.result.exc \in QuantPlayAPIError

\* An explicit failure marker in a JSON object.
HasFailureMarker(obj) ==
    \/ "error" \in DOMAIN obj /\ obj["error"] = TRUE
    \/ "status" \in DOMAIN obj /\ obj["status"] = "error"

\* The data field a handler returned (the sync handler returns it, the async
\* one returns the envelope that holds it).
ReturnedData(result) ==
    IF result.vtype = "APIResponse" THEN result.value.data ELSE result.value

\* C5: for a 2xx JSON response whose body is an object, both handlers raise
\* APIRequestError with the embedded message when the body carries a failure
\* marker (error true, or status "error"), and both return the data field
\* when it carries none and has a data field.
C5_HandlersAgree ==
    LET response == call.transport.response
        loaded == JsonLoads(response.text)
    IN (pc = "done" /\ call.op = "_handle_response"
            /\ Is2xx(response.status_code)
            /\ response.content_type = "application/json"
            /\ loaded.isDict) =>
        IF HasFailureMarker(loaded.obj)
        THEN \A r \in {call.result, call.async_result} :
                /\ r.kind = "raise" /\ r.exc = "APIRequestError"
                /\ r.message = Get(loaded.obj, "message", "Unknown error")
        ELSE "data" \in DOMAIN loaded.obj =>
                \A r \in {call.result, call.async_result} :
                    /\ r.kind = "return"
                    /\ ReturnedData(r) = loaded.obj["data"]

\* C6: on status 200 with a JSON object holding a data list of account
\* mappings and no failure marker, get_accounts returns one Account record
\* per item, in order, with the item's four field values.
C6_GetAccountsReturnsAccounts ==
    LET response == call.transport.response
        loaded == JsonLoads(response.text)
    IN (pc = "done" /\ call.op \in {"get_accounts", "async_get_accounts"}
            /\ call.transport.raised = "" /\ response.status_code = 200
            /\ response.content_type = "application/json"
            /\ loaded.isDict /\ "data" \in DOMAIN loaded.obj
            /\ ~HasFailureMarker(loaded.obj)) =>
        /\ call.result.kind = "return"
        /\ Len(call.result.value) = Len(loaded.obj["data"])
        /\ \A i \in 1..Len(loaded.obj["data"]) :
            /\ DOMAIN call.result.value[i] = Account_fields \cup {"cls"}
            /\ call.result.value[i]["cls"] = "Account"
            /\ \A f \in Account_fields :
                call.result.value[i][f] = loaded.obj["data"][i][f]

\* C7: on status 200 with a body that is not JSON every read operation, sync
\* or async, raises ParseError and the caller receives that ParseError.
C7_UnparseableBodyRaisesParseError ==
    (ReadDoneOnResponse /\ call.transport.response.status_code = 200
        /\ ~JsonLoads(call.transport.response.text).ok) =>
        /\ call.result.kind = "raise"
        /\ call.result.exc = "ParseError"

\* C8: a place_order call issues exactly one POST request carrying the nine
\* order fields and, on a successful response, returns the acknowledgment
\* record.
C8_PlaceOrderPostsOnce ==
    (pc = "done" /\ call.op = "place_order") =>
        /\ Len(sent) = 1
        /\ sent[1].method = "POST"
        /\ call.result.kind = "raise" => call.result.exc \in QuantPlayAPIError
        /\ call.result.kind = "return" => call.result.vtype # "none"

\* The header set the specification gives a client built with key k.
SpecHeaders(k) ==
    [h \in {"Content-Type", "Accept", "x-api-key"} |->
        IF h = "x-api-key" THEN k ELSE "application/json"]

\* C9: construction with a non-empty api_key k succeeds, sends nothing and
\* leaves headers = default headers plus the authentication header k, the
\* shared default headers staying as they were, so that every client keeps
\* its own key; with an empty or absent api_key it raises
\* AuthenticationError and yields no client.
C9_Construction ==
    /\ DEFAULT_HEADERS = DEFAULT_HEADERS_INIT
    /\ \A c \in clients : c.headers = SpecHeaders(c.api_key) /\ c.api_key # ""
    /\ (pc = "done" /\ call.op = "__init__") =>
        IF ~call.api_key.isNone /\ call.api_key.s # ""
        THEN /\ call.result.kind = "return"
             /\ call.self \in clients
             /\ call.self.api_key = call.api_key.s
             /\ call.self.headers = SpecHeaders(call.api_key.s)
             /\ sent = <<>>
        ELSE /\ call.result.kind = "raise"
             /\ call.result.exc = "AuthenticationError"
             /\ call.self = NoClient
             /\ sent = <<>>

\* C9 witness: two clients built with different keys exist after a
\* successful construction.
C9_Witness ==
    /\ pc = "done" /\ call.op = "__init__" /\ call.result.kind = "return"
    /\ \E c \in clients : c.api_key # call.self.api_key

\* C10: for a mapping with the four Account fields and any extra keys,
\* from_dict then to_dict returns exactly the four fields with their original
\* values, never raises, and leaves the source mapping as it was.
C10_AccountRoundTrip ==
    (pc = "done" /\ call.op = "Account.from_dict.to_dict"
        /\ Account_fields \subseteq DOMAIN call.data) =>
        /\ call.result.kind = "return"
        /\ DOMAIN call.result.value = Account_fields
        /\ \A f \in Account_fields : call.result.value[f] = call.data[f]
        /\ call.data_after = call.data

\* C10 witness: a round trip of a mapping that has the four fields and both
\* extra keys has returned.
C10_Witness ==
    /\ pc = "done" /\ call.op = "Account.from_dict.to_dict"
    /\ DOMAIN call.data = Account_fields \cup ExtraKeys
    /\ call.result.kind = "return"

\* A path without its leading separators: all of them, or at most one.
RECURSIVE StripLeadingSeparators(_)
StripLeadingSeparators(path) ==
    IF path # <<>> /\ Head(path) = "/"
    THEN StripLeadingSeparators(Tail(path))
    ELSE path

StripOneSeparator(path) ==
    IF path # <<>> /\ Head(path) = "/" THEN Tail(path) ELSE path

\* The URLs get_positions and get_holdings request for the call's nickname.
ReadUrlsAsSpecified ==
    /\ (pc = "done" /\ call.op = "get_positions") =>
        /\ Len(sent) = 1
        /\ sent[1].url = call.self.base_url \o <<"/", "accounts", "/">>
                            \o call.nickname \o <<"/", "positions">>
    /\ (pc = "done" /\ call.op = "get_holdings") =>
        /\ Len(sent) = 1
        /\ sent[1].url = call.self.base_url \o <<"/", "accounts", "/">>
                            \o call.nickname \o <<"/", "holdings">>
    /\ (pc = "done" /\ call.op = "get_accounts") =>
        /\ Len(sent) = 1
        /\ sent[1].url = call.self.base_url \o <<"/", "accounts">>

\* C11 as stated: for every base and every endpoint path the URL builder
\* returns the base followed by the path with exactly one leading separator,
\* and get_positions / get_holdings request base + "/accounts/" + n +
\* "/positions" and "/holdings".
C11_ExactlyOneLeadingSeparator ==
    /\ (pc = "done" /\ call.op = "_build_url") =>
        call.result.value =
            call.self.base_url \o <<"/">>
                \o StripLeadingSeparators(call.endpoint)
    /\ ReadUrlsAsSpecified

\* C11 amended: the URL builder returns base + path when the path starts
\* with a separator and base + "/" + path when it does not (one separator is
\* supplied when none leads, repeated leading separators are kept), and
\* get_positions / get_holdings request base + "/accounts/" + n +
\* "/positions" and "/holdings".
C11_SeparatorSuppliedWhenMissing ==
    /\ (pc = "done" /\ call.op = "_build_url") =>
        call.result.value =
            call.self.base_url \o <<"/">> \o StripOneSeparator(call.endpoint)
    /\ ReadUrlsAsSpecified

\* C11 witness: the builder has been applied to "accounts", which has no
\* leading separator, and returned base + "/accounts".
C11_Witness ==
    /\ pc = "done" /\ call.op = "_build_url"
    /\ call.endpoint = <<"accounts">>
    /\ call.result.value = call.self.base_url \o <<"/", "accounts">>

=============================================================================
